---- MODULE Spec2Model ----
(***************************************************************************)
(* Model of the ludwig task orchestrator: the polling loop and the         *)
(* coordinators of internal/orchestrator/orchestrator.go, the worktree     *)
(* manager of internal/orchestrator/git.go, the task store of              *)
(* internal/storage/taskStorage.go and the palette commands of the UI.     *)
(*                                                                         *)
(* A task record keeps the fields the coordinators read and write:         *)
(*   status  Pending / InProgress / NeedsReview / Completed                *)
(*   wt      WorktreePath is non-empty                                     *)
(*   br      BranchName is non-empty                                       *)
(*   rev     Review (and WorkInProgress) is set                            *)
(*   resp    ReviewResponse is set                                         *)
(* ResponseFile is written by the coordinators and read by nobody in the   *)
(* orchestrator; the update that stores it is modelled, the field is not.  *)
(*                                                                         *)
(* s.tasks maps an id to a pointer.  ListTasks hands out the pointers of   *)
(* the map it has just decoded, and UpdateTask stores the caller's pointer *)
(* in the map, so a coordinator's *Task can be the object that a save of   *)
(* another goroutine is encoding.  A coordinator whose object is in the    *)
(* map carries al = TRUE; its field writes go through to the map, and the  *)
(* encoder, which takes no lock, may see any mix of the old and the new    *)
(* fields.                                                                 *)
(***************************************************************************)
EXTENDS Integers, FiniteSets, Sequences, Bags, TLC

\* ------------------------------------------------------------------ bounds
\* tasks in the store when the orchestrator starts
NumTasks == 2
\* polling iterations of one run of the loop (the loop itself never ends)
MaxPolls == 1
\* tasks of the run that fills the semaphore
CapTasks == 4
\* commands the user gives to the UI in one run
MaxCommands == 1
\* tasks of the runs that follow a single task
SoloTasks == 1
\* tasks that generate branch names in one run
NumNamers == 3
\* branches with the slug of a task in the repository at the start
MaxBranches == 2
\* calls of WriteChunk, Write and Close on one sink
MaxSinkCalls == 5
\* calls of the task store made one after the other in one run
MaxStoreOps == 3
\* option lines of a review block
MaxOptions == 2
\* calls of Start and Stop in one run
MaxCalls == 4
\* the last reading of the clock in a run that lets time pass
MaxTime == 4

\* ------------------------------------------------------- program constants
SemaphoreCap == 3

\* the clock counts milliseconds
MsPerSecond == 1000

VARIABLES
    disk,      \* tasks.json: state "valid" or "partial"; tasks is the content,
               \* and while the file is partial the last complete content
    mem,       \* s.tasks of the orchestrator's FileTaskStorage
    loop,      \* the polling goroutine: pc, the tasks of the last list, pass progress
    polls,     \* polling iterations started, counted while the scenario bounds them
    coords,    \* bag of coordinators in flight (processNewTask / processResumeTask)
    sem,       \* number of elements in the semaphore channel
    wtdir,     \* tasks whose directory .worktrees/<taskID> exists
    ui,        \* the UI: its FileTaskStorage and the command it is executing
    lastRequestTime, \* 0: the zero time; otherwise the clock at the last request
    scen,      \* scenario: the agent outcomes and the commands that occur, the bounds
    wg,        \* counter of the WaitGroup: the loop and the coordinators not yet done
    hist,      \* history of the run: agent invocations and teardowns per task, the
               \* clock at the start of the last agent invocation (0: none yet), the
               \* response files under .ludwig/responses and the sinks opened
    now,       \* the clock, in units of a millisecond; it starts at 1
    running,   \* the package variable running
    stopCh,    \* the stop channel: "nil", "open" or "closed"
    user,      \* the goroutine that calls Start and Stop
    response,  \* an agent output handed to parseReviewRequest
    parsed,    \* what parseReviewRequest returned for it
    branches,  \* the branches of the git repository
    namers,    \* new-task coordinators seen by the branch names they generate
    client,    \* a call of the agent client: its place in the chain and its log
    sink,      \* a response sink: the file, the handle, and the calls made on it
    peer,      \* a second goroutine that calls Start and Stop
    store      \* a caller of the task store: s.tasks of its instance and its calls

vars == <<disk, mem, loop, polls, coords, sem, wtdir, ui, lastRequestTime, scen,
          wg, hist, now, running, stopCh, user, response, parsed, branches, namers,
          client, sink, peer, store>>

\* what no step of the polling loop, of a coordinator or of the UI's store changes
outside == <<now, running, stopCh, user, response, parsed, branches, namers, client, sink, peer, store>>

Pending == "Pending"
InProgress == "InProgress"
NeedsReview == "NeedsReview"
Completed == "Completed"

EmptyMap == [i \in {} |-> 0]

\* the record the UI adds
NewTask == [status |-> Pending, wt |-> FALSE, br |-> FALSE, rev |-> FALSE, resp |-> FALSE]

\* the record of a task whose agent asked for a review
ReviewTask == [status |-> NeedsReview, wt |-> TRUE, br |-> TRUE, rev |-> TRUE, resp |-> FALSE]

\* the same once the user has answered
AnsweredTask == [ReviewTask EXCEPT !.resp = TRUE]

\* the record an agent error leaves behind
FailedTask == [status |-> Pending, wt |-> TRUE, br |-> TRUE, rev |-> FALSE, resp |-> FALSE]

ValidFile(m) == [state |-> "valid", tasks |-> m]

\* os.Create on the path of the store: the file is empty until the encoder
\* has written
Truncated(d) == [state |-> "partial", tasks |-> d.tasks]

StatusOf(m) == [i \in DOMAIN m |-> m[i].status]

Fields == {"status", "wt", "br", "rev", "resp"}

Changed(a, b) == {f \in Fields : a[f] # b[f]}

\* The encoder reads the fields of a *Task in the order of the struct, Status
\* before BranchName and WorktreePath, and takes no lock.  Of the fields a
\* goroutine is changing from a to b, these are the sets the encoder can
\* still come to: processNewTask stores Status after the other two.
Unread(a, b) ==
    {m \in SUBSET Changed(a, b) : "status" \in m => Changed(a, b) \cap {"br", "wt"} \subseteq m}

Merge(a, b, m) == [f \in Fields |-> IF f \in m THEN b[f] ELSE a[f]]

\* ---------------------------------------------------------------- the store

\* a load that takes whatever the decoder has made of the file
loadNeverFails(d) == FALSE

\* load: a file that does not decode is an error and leaves s.tasks alone
loadFails(d) == d.state = "partial"

load(d, m) == IF loadFails(d) THEN m ELSE d.tasks

\* UpdateTask up to the call of save: reload, then replace the entry
UpdateTaskFails(d, m, id) == loadFails(d) \/ id \notin DOMAIN load(d, m)

UpdateTaskSet(d, m, id, rec) == [load(d, m) EXCEPT ![id] = rec]

AddTaskSet(d, m, id, rec) == [i \in DOMAIN load(d, m) \cup {id} |->
                                 IF i = id THEN rec ELSE load(d, m)[i]]

DeleteTaskSet(d, m, id) == [i \in DOMAIN load(d, m) \ {id} |-> load(d, m)[i]]

\* Every method of the store starts with load(), which replaces s.tasks before
\* anything reads it; s.tasks is read again only by the save that follows the
\* store of the same call, when it hands the map to the encoder.  The model
\* keeps s.tasks while some caller is between its store and that point, and
\* keeps who has a pointer into the map while some caller is between its
\* store and the end of its save; it forgets them otherwise.
Storing(cs) == \E c \in BagToSet(cs) : c.ph = "create"

Holding(cs) == \E c \in BagToSet(cs) : c.ph \in {"create", "encode"}

Unalias(c) == [c EXCEPT !.al = FALSE]

\* s.tasks = tasks in load: the objects of the old map are no longer in
\* s.tasks, and an encoder at work goes on with the old map
Detach(c) == [c EXCEPT !.al = FALSE, !.ph = IF @ = "encode" THEN "stale" ELSE @]

Detached(cs) == BagOfAll(Detach, cs)

Live(m, cs) == IF Storing(cs) THEN m ELSE EmptyMap

LiveCoords(cs) == IF Holding(cs) THEN cs ELSE BagOfAll(Unalias, cs)

LiveLoop(l, cs) == IF Holding(cs) THEN l ELSE [l EXCEPT !.al = {}]

\* ---------------------------------------------------------- the coordinators

\* ph is the coordinator's place in UpdateTask: "call" before load, "create"
\* between the store in s.tasks and os.Create, "encode" while the encoder
\* writes the map s.tasks points to, "stale" while it writes a map that
\* s.tasks has left; buf is what the encoder writes
Coord(id, kind, pc, ph, al, t) ==
    [task |-> id, kind |-> kind, pc |-> pc, ph |-> ph, al |-> al, t |-> t, buf |-> EmptyMap]

AtCall(c, pc) == [c EXCEPT !.pc = pc, !.ph = "call"]
AtStep(c, pc) == [c EXCEPT !.pc = pc, !.ph = "-", !.buf = EmptyMap]

Swap(cs, c, d) == (cs (-) SetToBag({c})) (+) SetToBag({d})
Drop(cs, c) == cs (-) SetToBag({c})

\* the goroutines after a step: cs are the coordinators, m is s.tasks, l the loop
Settle(cs, m, l) ==
    /\ coords' = LiveCoords(cs)
    /\ mem' = Live(m, cs)
    /\ loop' = LiveLoop(l, cs)

\* an encoder at work on the map of s.tasks, when the object of task i in
\* that map gets the fields n and the encoder has yet to read the fields m
Observe(e, i, n, m) ==
    IF e.ph = "encode" THEN [e EXCEPT !.buf[i] = Merge(@, n, m)] ELSE e

Observers(cs, i, n, m) == BagOfAll(LAMBDA e : Observe(e, i, n, m), cs)

\* s.tasks once the object of task i in it has the fields n
Stored(m, i, n) == IF i \in DOMAIN m THEN [m EXCEPT ![i] = n] ELSE m

\* c assigns the fields n to its *Task and goes on at d; when the object is
\* in s.tasks the stores race with the encoders
Assign(c, n, d) ==
    IF c.al
    THEN \E m \in Unread(c.t, n) :
            Settle(Swap(Observers(coords, c.task, n, m), c, [d EXCEPT !.t = n]),
                   Stored(mem, c.task, n), loop)
    ELSE Settle(Swap(coords, c, [d EXCEPT !.t = n]), mem, loop)

\* the status a failed invocation goes back to
RevertStatus(c) == IF c.kind = "new" THEN Pending ELSE NeedsReview

\* where the coordinator goes when the UpdateTask at c.pc has returned
AfterUpdate(c, ok) ==
    CASE c.pc = "ip" -> IF ok THEN "sink" ELSE "exit"
      [] c.pc = "rf" -> "agent"
      [] c.pc = "done" -> IF c.t.wt THEN "teardown" ELSE "exit"
      [] OTHER -> "exit"

\* a coordinator that keeps its slot
ReleasedNever(c, ok) == 0

\* the coordinators once c has returned from UpdateTask; on exit the
\* deferred calls release the semaphore slot
Returned(cs, c, ok) ==
    IF AfterUpdate(c, ok) = "exit"
    THEN Drop(cs, c)
    ELSE Swap(cs, c, AtStep(c, AfterUpdate(c, ok)))

Released(c, ok) == IF AfterUpdate(c, ok) = "exit" THEN 1 ELSE 0

\* the fields processNewTask sets once the worktree exists
WorktreeCreated(t) == [t EXCEPT !.br = TRUE, !.wt = TRUE, !.status = InProgress]

\* GenerateBranchName, then CreateWorktree: git worktree add fails when
\* .worktrees/<taskID> exists
CreateWorktree ==
    \E c \in BagToSet(coords) :
        /\ c.pc = "wt"
        /\ IF c.task \in wtdir
           THEN /\ Settle(Drop(coords, c), mem, loop)
                /\ sem' = sem - 1
                /\ wg' = wg - 1
                /\ UNCHANGED wtdir
           ELSE /\ wtdir' = wtdir \cup {c.task}
                /\ Assign(c, WorktreeCreated(c.t), AtCall(c, "ip"))
                /\ UNCHANGED <<sem, wg>>
        /\ UNCHANGED <<disk, polls, ui, lastRequestTime, scen, hist, outside>>

\* UpdateTask up to save: load(), then s.tasks[task.ID] = task
UpdateTask ==
    \E c \in BagToSet(coords) :
        /\ c.ph = "call"
        /\ IF UpdateTaskFails(disk, mem, c.task)
           THEN /\ IF loadFails(disk)
                   THEN Settle(Returned(coords, c, FALSE), mem, loop)
                   ELSE Settle(Detached(Returned(coords, c, FALSE)),
                               load(disk, mem), [loop EXCEPT !.al = {}])
                /\ sem' = sem - Released(c, FALSE)
                /\ wg' = wg - Released(c, FALSE)
           ELSE /\ Settle(Swap(Detached(coords), Detach(c),
                               [c EXCEPT !.ph = "create", !.al = TRUE]),
                          UpdateTaskSet(disk, mem, c.task, c.t),
                          [loop EXCEPT !.al = {}])
                /\ UNCHANGED <<sem, wg>>
        /\ UNCHANGED <<disk, polls, wtdir, ui, lastRequestTime, scen, hist, outside>>

\* save, first half: os.Create truncates tasks.json, and Encode is called
\* with the map s.tasks points to
saveCreate ==
    \E c \in BagToSet(coords) :
        /\ c.ph = "create"
        /\ disk' = Truncated(disk)
        /\ Settle(Swap(coords, c, [c EXCEPT !.ph = "encode", !.buf = mem]), mem, loop)
        /\ UNCHANGED <<polls, sem, wtdir, ui, lastRequestTime, scen, wg, hist, outside>>

\* save, second half: the encoder has written the map
saveEncode ==
    \E c \in BagToSet(coords) :
        /\ c.ph \in {"encode", "stale"}
        /\ disk' = ValidFile(c.buf)
        /\ Settle(Returned(coords, c, TRUE), mem, loop)
        /\ sem' = sem - Released(c, TRUE)
        /\ wg' = wg - Released(c, TRUE)
        /\ UNCHANGED <<polls, wtdir, ui, lastRequestTime, scen, hist, outside>>

\* config.LoadConfig on the .ludwig/config.json of the scenario: (nil, nil)
\* when there is no file, (nil, err) when the file does not decode, else the
\* configuration
LoadConfig(sc) ==
    CASE sc.config = "absent" -> [nil |-> TRUE, err |-> FALSE, delayMs |-> 0]
      [] sc.config = "malformed" -> [nil |-> TRUE, err |-> TRUE, delayMs |-> 0]
      [] OTHER -> [nil |-> FALSE, err |-> FALSE, delayMs |-> sc.delayMs]

\* applyRateLimit: without a configuration, or without a delay in it, it
\* returns at once;
\* with one, the caller that finds the zero time goes on, and one that comes
\* within the delay sleeps, the mutex held, until the delay has passed; it
\* returns with lastRequestTime at the clock
RateLimitOpen ==
    \/ LoadConfig(scen).delayMs = 0
    \/ lastRequestTime = 0
    \/ now - lastRequestTime >= LoadConfig(scen).delayMs

RateLimitPassed == IF LoadConfig(scen).delayMs = 0 THEN lastRequestTime ELSE now

\* time.Now().Format("20060102-150405"): the clock in whole seconds
Timestamp(t) == t \div MsPerSecond

\* filename := fmt.Sprintf("%s-%s.md", taskID, timestamp)
ResponseFileName(id, t) == [task |-> id, at |-> Timestamp(t)]

\* the history once os.Create has made, or truncated, the response file f
\* the counters of the history count while the scenario bounds the polls
Counted(n) == IF scen.maxPolls = 0 THEN n ELSE n + 1

Opened(h, f) == [h EXCEPT !.files = @ \cup {f}, !.opened = Counted(@)]

\* a mutex that is given back when the agent has returned
rateLimitMuHeldAcrossAgent(cs) == \E c \in BagToSet(cs) : c.pc \in {"limit", "rf", "agent"}

\* rateLimitMu is held by a coordinator from rateLimitMu.Lock() to the
\* deferred Unlock at the return of applyRateLimit; a coordinator that sleeps
\* in between is at "limit"
rateLimitMuHeld(cs) == \E c \in BagToSet(cs) : c.pc = "limit"

\* applyRateLimit of a coordinator that comes within the delay, up to
\* time.Sleep(waitTime): it has taken rateLimitMu and sleeps
LockRateLimit ==
    \E c \in BagToSet(coords) :
        /\ c.pc = "sink"
        /\ LoadConfig(scen).delayMs > 0
        /\ ~ rateLimitMuHeld(coords)
        /\ ~ RateLimitOpen
        /\ Settle(Swap(coords, c, [c EXCEPT !.pc = "limit"]), mem, loop)
        /\ UNCHANGED <<disk, polls, sem, wtdir, ui, lastRequestTime, scen, wg, hist, outside>>

\* applyRateLimit, then NewResponseWriter: the sink is opened, or creating
\* the file fails and the status goes back.  The coordinator takes
\* rateLimitMu when there is a delay, or has it from before its sleep, and
\* gives it back when applyRateLimit returns.
NewResponseWriter ==
    \E c \in BagToSet(coords) :
        /\ \/ c.pc = "sink" /\ (LoadConfig(scen).delayMs = 0 \/ ~ rateLimitMuHeld(coords))
           \/ c.pc = "limit"
        /\ RateLimitOpen
        /\ lastRequestTime' = RateLimitPassed
        /\ \E o \in {"open"} \cup (scen.outcomes \cap {"sinkerr"}) :
              IF o = "sinkerr"
              THEN /\ Assign(c, [c.t EXCEPT !.status = RevertStatus(c)], AtCall(c, "sinkerr"))
                   /\ UNCHANGED hist
              ELSE /\ Assign(c, c.t, AtCall(c, "rf"))
                   /\ hist' = Opened(hist, ResponseFileName(c.task, now))
        /\ UNCHANGED <<disk, polls, sem, wtdir, ui, scen, wg, outside>>

\* a resume that reads the output as processNewTask does
AgentResultParsed(c, o) ==
    CASE o = "err" -> [c.t EXCEPT !.status = RevertStatus(c)]
      [] o = "review" -> [c.t EXCEPT !.status = NeedsReview, !.rev = TRUE]
      [] OTHER -> [c.t EXCEPT !.status = Completed]

\* the record after the agent has returned an error, or output with a review
\* block, or output without one; processResumeTask does not parse the output
AgentResult(c, o) ==
    CASE o = "err" -> [c.t EXCEPT !.status = RevertStatus(c)]
      [] o = "review" /\ c.kind = "new" -> [c.t EXCEPT !.status = NeedsReview, !.rev = TRUE]
      [] OTHER -> [c.t EXCEPT !.status = Completed]

AgentExit(c, o) ==
    CASE o = "err" -> "agerr"
      [] o = "review" /\ c.kind = "new" -> "rev"
      [] OTHER -> "done"

\* the history once the agent has been invoked for task i at the time t
Invoked(h, i, t) == [h EXCEPT !.invoked[i] = Counted(@), !.lastStart = t]

\* the history once the worktree of task i has been committed and removed
Removed(h, i) == [h EXCEPT !.removed[i] = Counted(@)]

SendPromptWithDir ==
    \E c \in BagToSet(coords) :
        /\ c.pc = "agent"
        /\ hist' = Invoked(hist, c.task, now)
        /\ \E o \in scen.outcomes \cap {"ok", "review", "err"} :
              Assign(c, AgentResult(c, o), AtCall(c, AgentExit(c, o)))
        /\ UNCHANGED <<disk, polls, sem, wtdir, ui, lastRequestTime, scen, wg, outside>>

\* CommitAnyChanges, RemoveWorktree, t.WorktreePath = ""
RemoveWorktree ==
    \E c \in BagToSet(coords) :
        /\ c.pc = "teardown"
        /\ hist' = Removed(hist, c.task)
        /\ wtdir' = wtdir \ {c.task}
        /\ Assign(c, [c.t EXCEPT !.wt = FALSE], AtCall(c, "clear"))
        /\ UNCHANGED <<disk, polls, sem, ui, lastRequestTime, scen, wg, outside>>

\* ------------------------------------------------------------ the polling loop

ResumeEligible(snap) ==
    {i \in DOMAIN snap : snap[i].status = NeedsReview /\ snap[i].resp}

PendingIn(snap) == {i \in DOMAIN snap : snap[i].status = Pending}

ResumeTodo(l) == ResumeEligible(l.tasks) \ l.resumeTried
NewTodo(l) == PendingIn(l.tasks) \ l.newTried

\* the passes taken together
CandidatesOfBothPasses(l) == ResumeTodo(l) \cup NewTodo(l)

\* the tasks the iteration can come to next: those of the second pass once
\* the first pass is through
Candidates(l) == IF ResumeTodo(l) # {} THEN ResumeTodo(l) ELSE NewTodo(l)

IdleLoop == [pc |-> "poll", tasks |-> EmptyMap, resumeTried |-> {}, newTried |-> {},
             al |-> {}]

\* a loop that never looks at the channel
StopNeverSeen(ch) == FALSE

\* case <-stopCh
StopObserved(ch) == ch = "closed"

\* select on stopCh, then ListTasks; a list that fails sleeps and polls again
ListTasks ==
    /\ loop.pc = "poll"
    /\ ~ StopObserved(stopCh)
    /\ scen.maxPolls = 0 \/ polls < scen.maxPolls
    /\ polls' = IF scen.maxPolls = 0 THEN 0 ELSE polls + 1
    /\ IF loadFails(disk)
       THEN UNCHANGED <<loop, mem, coords>>
       ELSE Settle(Detached(coords), load(disk, mem),
                   [IdleLoop EXCEPT !.pc = "pass", !.tasks = load(disk, mem),
                                    !.al = DOMAIN load(disk, mem)])
    /\ UNCHANGED <<disk, sem, wtdir, ui, lastRequestTime, scen, wg, hist, outside>>

\* the goroutine the loop starts for task i of its list; processResumeTask
\* begins with t.Status = InProgress
Spawn(l, i) ==
    IF i \in ResumeEligible(l.tasks)
    THEN Coord(i, "resume", "ip", "call", i \in l.al, [l.tasks[i] EXCEPT !.status = InProgress])
    ELSE Coord(i, "new", "wt", "-", i \in l.al, l.tasks[i])

Tried(l, i) ==
    IF i \in ResumeEligible(l.tasks)
    THEN [l EXCEPT !.resumeTried = @ \cup {i}]
    ELSE [l EXCEPT !.newTried = @ \cup {i}]

\* one task of a pass: the non-blocking send on the semaphore, and on success
\* the go statement
TryAcquire ==
    /\ loop.pc = "pass"
    /\ \E i \in Candidates(loop) :
          IF sem < SemaphoreCap
          THEN /\ sem' = sem + 1
               /\ wg' = wg + 1
               /\ IF i \in loop.al
                  THEN \E m \in Unread(loop.tasks[i], Spawn(loop, i).t) :
                          Settle(Observers(coords, i, Spawn(loop, i).t, m)
                                     (+) SetToBag({Spawn(loop, i)}),
                                 Stored(mem, i, Spawn(loop, i).t), Tried(loop, i))
                  ELSE Settle(coords (+) SetToBag({Spawn(loop, i)}), mem, Tried(loop, i))
          ELSE /\ loop' = Tried(loop, i)
               /\ UNCHANGED <<sem, wg, coords, mem>>
    /\ UNCHANGED <<disk, polls, wtdir, ui, lastRequestTime, scen, hist, outside>>

\* the end of the iteration (with a sleep of 2 s when nothing was admitted)
EndIteration ==
    /\ loop.pc = "pass"
    /\ Candidates(loop) = {}
    /\ loop' = IdleLoop
    /\ UNCHANGED <<disk, mem, polls, coords, sem, wtdir, ui, lastRequestTime, scen, wg, hist, outside>>

\* ---------------------------------------------------------------------- the UI

IdleUI(n) == [pc |-> "idle", mem |-> EmptyMap, n |-> n]

\* the id uuid.New gives to the task of the next add command
NewId == scen.numTasks + ui.n + 1

\* the tasks a command can be about: add makes its own, delete takes a row of
\* the board, respond takes a task that waits for its answer
CommandTargets(o) ==
    CASE o = "add" -> {NewId}
      [] o = "delete" -> DOMAIN disk.tasks
      [] OTHER -> {i \in DOMAIN disk.tasks : disk.tasks[i] = ReviewTask}

\* s.tasks of the UI's store when the command calls save
CommandSet(o, i) ==
    CASE o = "add" -> AddTaskSet(disk, ui.mem, i, NewTask)
      [] o = "delete" -> DeleteTaskSet(disk, ui.mem, i)
      [] OTHER -> UpdateTaskSet(disk, ui.mem, i, AnsweredTask)

\* a palette command up to the call of save; a load that fails ends it
Command ==
    /\ ui.pc = "idle"
    /\ ui.n < scen.maxCommands
    /\ \E o \in scen.commands :
          IF loadFails(disk)
          THEN ui' = IdleUI(ui.n + 1)
          ELSE \E i \in CommandTargets(o) :
                  ui' = [pc |-> "create", mem |-> CommandSet(o, i), n |-> ui.n + 1]
    /\ UNCHANGED <<disk, mem, loop, polls, coords, sem, wtdir, lastRequestTime, scen, wg, hist, outside>>

uiSaveCreate ==
    /\ ui.pc = "create"
    /\ disk' = Truncated(disk)
    /\ ui' = [ui EXCEPT !.pc = "encode"]
    /\ UNCHANGED <<mem, loop, polls, coords, sem, wtdir, lastRequestTime, scen, wg, hist, outside>>

uiSaveEncode ==
    /\ ui.pc = "encode"
    /\ disk' = ValidFile(ui.mem)
    /\ ui' = IdleUI(ui.n)
    /\ UNCHANGED <<mem, loop, polls, coords, sem, wtdir, lastRequestTime, scen, wg, hist, outside>>

\* ------------------------------------------------------------- Start and Stop

\* no polling goroutine
NoLoop == [IdleLoop EXCEPT !.pc = "none"]

\* the goroutine Start spawns, before it has made its store
NewLoop == [IdleLoop EXCEPT !.pc = "start"]

\* the caller once its call number n + 1, cmd, has found running = found;
\* pc is "idle" when the call has returned
Called(u, cmd, found, pc) == [pc |-> pc, n |-> u.n + 1, cmd |-> cmd, found |-> found]

\* a Start that goes on whatever it finds
StartWhateverRunning(r) == FALSE

\* if running { return }
StartReturnsAtOnce(r) == r

\* what a call of Start or Stop leaves alone, the callers apart
callFrame == <<disk, mem, polls, coords, wtdir, ui, lastRequestTime, scen, hist, now,
               response, parsed, branches, namers, client, sink, store>>

\* Start, under mu, called by the goroutine u, which is un afterwards
StartBy(u, un) ==
    /\ u.pc = "idle"
    /\ u.n < scen.maxCalls
    /\ un = Called(u, "start", running, "idle")
    /\ IF StartReturnsAtOnce(running)
       THEN UNCHANGED <<running, stopCh, sem, wg, loop>>
       ELSE /\ running' = TRUE
            /\ stopCh' = "open"
            /\ sem' = 0
            /\ wg' = wg + 1
            /\ loop' = NewLoop
    /\ UNCHANGED callFrame

Start == StartBy(user, user') /\ UNCHANGED peer

\* Stop up to wg.Wait(): under mu, return if not running, else close(stopCh);
\* closing a closed channel panics
StopBy(u, un) ==
    /\ u.pc = "idle"
    /\ u.n < scen.maxCalls
    /\ IF ~ running
       THEN /\ un = Called(u, "stop", FALSE, "idle")
            /\ UNCHANGED stopCh
       ELSE /\ un = Called(u, "stop", TRUE, IF stopCh = "open" THEN "wait" ELSE "panic")
            /\ stopCh' = "closed"
    /\ UNCHANGED <<loop, sem, wg, running>>
    /\ UNCHANGED callFrame

Stop == StopBy(user, user') /\ UNCHANGED peer

\* the counter of a Wait that does not wait
WaitOverAtOnce(n) == TRUE

\* wg.Wait() returns when the counter is 0
WaitReturns(n) == n = 0

\* Stop from wg.Wait() on: running = false under mu
StopReturnBy(u, un) ==
    /\ u.pc = "wait"
    /\ WaitReturns(wg)
    /\ running' = FALSE
    /\ un = [u EXCEPT !.pc = "idle"]
    /\ UNCHANGED <<loop, sem, wg, stopCh>>
    /\ UNCHANGED callFrame

StopReturn == StopReturnBy(user, user') /\ UNCHANGED peer

\* the same calls made by the second goroutine
PeerStart == StartBy(peer, peer') /\ UNCHANGED user

PeerStop == StopBy(peer, peer') /\ UNCHANGED user

PeerStopReturn == StopReturnBy(peer, peer') /\ UNCHANGED user

\* the head of orchestratorLoop: NewFileTaskStorage, and return when it
\* fails; then cfg, err := config.LoadConfig(), where the loop goes on with
\* cfg = nil when err is not nil
LoopStart ==
    /\ loop.pc = "start"
    /\ IF loadFails(disk)
       THEN loop' = NoLoop /\ wg' = wg - 1
       ELSE loop' = IdleLoop /\ wg' = wg
    /\ UNCHANGED <<disk, mem, polls, coords, sem, wtdir, ui, lastRequestTime, scen,
                   hist, outside>>

\* the top of an iteration: case <-stopCh: return, and the deferred wg.Done()
LoopExit ==
    /\ loop.pc = "poll"
    /\ StopObserved(stopCh)
    /\ loop' = NoLoop
    /\ wg' = wg - 1
    /\ UNCHANGED <<disk, mem, polls, coords, sem, wtdir, ui, lastRequestTime, scen,
                   hist, outside>>

\* ---------------------------------------------------- the review protocol
\* Strings are sequences of characters; s[a:b] of the code is Slice(s, a, b).

NeedsReviewMarker == <<"-", "-", "-", "N", "E", "E", "D", "S", "_", "R", "E", "V", "I", "E", "W", "-", "-", "-">>

EndReviewMarker == <<"-", "-", "-", "E", "N", "D", "_", "R", "E", "V", "I", "E", "W", "-", "-", "-">>

QuestionPrefix == <<"Q", "u", "e", "s", "t", "i", "o", "n", ":">>

ContextPrefix == <<"C", "o", "n", "t", "e", "x", "t", ":">>

IdPrefix == <<"-", " ", "i", "d", ":">>

LabelPrefix == <<"l", "a", "b", "e", "l", ":">>

Newline == <<"\n">>

Bar == <<"|">>

Whitespace == {" ", "\n", "\t", "\r"}

Slice(s, a, b) == SubSeq(s, a + 1, b)

Least(S) == CHOOSE i \in S : \A j \in S : i <= j

RECURSIVE trimStart(_)
trimStart(s) == IF s # <<>> /\ Head(s) \in Whitespace THEN trimStart(Tail(s)) ELSE s

RECURSIVE trimEnd(_)
trimEnd(s) ==
    IF s # <<>> /\ s[Len(s)] \in Whitespace THEN trimEnd(SubSeq(s, 1, Len(s) - 1)) ELSE s

trim(s) == trimEnd(trimStart(s))

hasPrefix(s, prefix) == Len(s) >= Len(prefix) /\ Slice(s, 0, Len(prefix)) = prefix

trimPrefix(s, prefix) == IF hasPrefix(s, prefix) THEN Slice(s, Len(prefix), Len(s)) ELSE s

\* for i := 0; i <= len(s)-len(sep); i++
indexOf(s, sep) ==
    LET found == {i \in 0..(Len(s) - Len(sep)) : Slice(s, i, i + Len(sep)) = sep}
    IN  IF found = {} THEN -1 ELSE Least(found)

RECURSIVE split(_, _)
split(s, sep) ==
    IF indexOf(s, sep) = -1
    THEN <<s>>
    ELSE <<Slice(s, 0, indexOf(s, sep))>>
             \o split(Slice(s, indexOf(s, sep) + Len(sep), Len(s)), sep)

\* the option of a line, as a sequence: empty for nil
parseOption(line) ==
    LET parts == split(trim(trimPrefix(line, IdPrefix)), Bar)
    IN  IF ~ hasPrefix(line, IdPrefix) \/ Len(parts) < 2
        THEN <<>>
        ELSE IF ~ hasPrefix(trim(parts[2]), LabelPrefix)
             THEN <<>>
             ELSE <<[id |-> trim(parts[1]),
                     label |-> trim(trimPrefix(trim(parts[2]), LabelPrefix))]>>

NilReview == [nil |-> TRUE, question |-> <<>>, context |-> <<>>, options |-> <<>>]

\* the body of the loop over the lines, on the trimmed line
parseLine(line, r) ==
    IF hasPrefix(line, QuestionPrefix)
    THEN [r EXCEPT !.question = trim(trimPrefix(line, QuestionPrefix))]
    ELSE IF hasPrefix(line, ContextPrefix)
         THEN [r EXCEPT !.context = trim(trimPrefix(line, ContextPrefix))]
         ELSE IF hasPrefix(line, IdPrefix)
              THEN [r EXCEPT !.options = @ \o parseOption(line)]
              ELSE r

RECURSIVE parseLines(_, _)
parseLines(lines, r) ==
    IF lines = <<>> THEN r ELSE parseLines(Tail(lines), parseLine(trim(Head(lines)), r))

parseReviewBlock(block) ==
    LET r == parseLines(split(block, Newline), NilReview)
    IN  IF r.question = <<>> THEN NilReview ELSE [r EXCEPT !.nil = FALSE]

\* for i := from; i < len(response)-len(marker); i++: the first index at
\* which the marker stands, or -1
scanFor(s, marker, from) ==
    LET found == {i \in from..(Len(s) - Len(marker) - 1) :
                     Slice(s, i, i + Len(marker)) = marker}
    IN  IF found = {} THEN -1 ELSE Least(found)

NoReview == [done |-> TRUE, wip |-> <<>>, review |-> NilReview, has |-> FALSE]

parseReviewRequest(resp) ==
    LET at == scanFor(resp, NeedsReviewMarker, 0)
        reviewStart == at + Len(NeedsReviewMarker)
        reviewEnd == scanFor(resp, EndReviewMarker, reviewStart)
        review == parseReviewBlock(Slice(resp, reviewStart, reviewEnd))
    IN  IF at = -1 \/ reviewEnd = -1
        THEN NoReview
        ELSE [done |-> TRUE,
              wip |-> trim(Slice(resp, 0, reviewStart - Len(NeedsReviewMarker))),
              review |-> review,
              has |-> ~ review.nil]

\* Agent outputs.  An output is made of the text before the block, the
\* opening sentinel, a Question: line, option lines, the closing sentinel and
\* the text after it; any of the parts can be missing, and a second block can
\* follow.
Options == <<[id |-> <<"a">>, label |-> <<"g", "o", " ", "o", "n">>], [id |-> <<"b">>, label |-> <<"s", "t", "o", "p">>]>>

Prefixes == {<<>>, <<"d", "i", "d", " ", "i", "t", ".", " ">>, <<"\n", "w", "i", "p", "\n">>}

Suffixes == {<<>>, Newline, <<"o", "k">>}

Questions == {<<>>, <<"W", "h", "i", "c", "h", "?">>}

OptionLine(o) == IdPrefix \o <<" ">> \o o.id \o <<" ", "|", " ">> \o LabelPrefix
                     \o <<" ">> \o o.label \o Newline

RECURSIVE OptionLines(_)
OptionLines(os) == IF os = <<>> THEN <<>> ELSE OptionLine(Head(os)) \o OptionLines(Tail(os))

QuestionLine(q) == IF q = <<>> THEN <<>> ELSE QuestionPrefix \o <<" ">> \o q \o Newline

\* the block of another review request
SecondBlock == NeedsReviewMarker \o Newline \o QuestionLine(<<"W", "h", "y", "?">>) \o EndReviewMarker \o Newline

Outputs ==
    {f \in [prefix : Prefixes, open : BOOLEAN, question : Questions,
            options : {SubSeq(Options, 1, n) : n \in 0..MaxOptions},
            close : BOOLEAN, suffix : Suffixes, again : BOOLEAN] :
        f.again => f.open /\ f.close}

Text(f) ==
    f.prefix
      \o (IF f.open THEN NeedsReviewMarker \o Newline ELSE <<>>)
      \o QuestionLine(f.question)
      \o OptionLines(f.options)
      \o (IF f.close THEN EndReviewMarker ELSE <<>>)
      \o f.suffix
      \o (IF f.again THEN SecondBlock ELSE <<>>)

\* response, err := aiClient.SendPromptWithDir(...), then parseReviewRequest(response)
ParseReview ==
    /\ ~ parsed.done
    /\ parsed' = parseReviewRequest(Text(response))
    /\ UNCHANGED <<disk, mem, loop, polls, coords, sem, wtdir, ui, lastRequestTime, scen,
                   wg, hist, now, running, stopCh, user, response, branches, namers, client, sink, peer, store>>

\* ------------------------------------------------------------- branch names
\* A branch name is the slug of the task name (ludwig/ and the first words in
\* kebab case) and a counter: 0 for the slug itself, k for slug-k.

BranchName(slug, k) == [slug |-> slug, k |-> k]

\* for { exists := BranchExists(branchName); if !exists { return } ;
\*       branchName = baseName-counter; counter++ }
RECURSIVE firstUnused(_, _, _)
firstUnused(slug, k, existing) ==
    IF BranchName(slug, k) \notin existing
    THEN BranchName(slug, k)
    ELSE firstUnused(slug, k + 1, existing)

\* a generator that does not look for duplicates
GenerateBaseName(slug, existing) == BranchName(slug, 0)

GenerateBranchName(slug, existing) == firstUnused(slug, 0, existing)

\* the coordinator of a Pending task with the slug
Namer(slug) == [pc |-> "gen", slug |-> slug, name |-> BranchName(slug, 0), seen |-> {}]

\* processNewTask: branchName, err := GenerateBranchName(t.Name); seen keeps
\* the branches that existed at the call
GenerateName ==
    \E i \in DOMAIN namers :
        /\ namers[i].pc = "gen"
        /\ namers' = [namers EXCEPT ![i].pc = "add",
                                    ![i].name = GenerateBranchName(namers[i].slug, branches),
                                    ![i].seen = branches]
        /\ UNCHANGED <<disk, mem, loop, polls, coords, sem, wtdir, ui, lastRequestTime, scen,
                       wg, hist, now, running, stopCh, user, response, parsed, branches, client, sink, peer, store>>

\* CreateWorktree: git worktree add -b branchName creates the branch, or fails
\* when the branch exists, and then the coordinator returns with the task
\* still Pending; otherwise t.BranchName = branchName and the task goes to
\* InProgress
GitWorktreeAdd ==
    \E i \in DOMAIN namers :
        /\ namers[i].pc = "add"
        /\ IF namers[i].name \in branches
           THEN /\ namers' = [namers EXCEPT ![i].pc = "failed"]
                /\ UNCHANGED branches
           ELSE /\ namers' = [namers EXCEPT ![i].pc = "recorded"]
                /\ branches' = branches \cup {namers[i].name}
        /\ UNCHANGED <<disk, mem, loop, polls, coords, sem, wtdir, ui, lastRequestTime, scen,
                       wg, hist, now, running, stopCh, user, response, parsed, client, sink, peer, store>>

\* a later polling iteration admits the Pending task again
Readmit ==
    \E i \in DOMAIN namers :
        /\ namers[i].pc = "failed"
        /\ namers' = [namers EXCEPT ![i].pc = "gen"]
        /\ UNCHANGED <<disk, mem, loop, polls, coords, sem, wtdir, ui, lastRequestTime, scen,
                       wg, hist, now, running, stopCh, user, response, parsed, branches, client, sink, peer, store>>

\* ------------------------------------------------------------ the agent client

\* var modelFallbackChain
modelFallbackChain == <<"auto-gemini-3", "gemini-2.5-pro", "gemini-2.5-flash", "gemini-2.5-flash-lite">>

\* maxRetries := 3
maxRetries == 3

\* baseDelay := 30 * time.Second, in seconds
baseDelay == 30

\* What one run of the agent subprocess returns: err is a non-nil error,
\* respHit says that the output collected has one of the texts
\* isRateLimitError looks for ("429", "rate limit", ...), errHit that the
\* message of the error has one.
ExecOutcomes ==
    {o \in [err : BOOLEAN, respHit : BOOLEAN, errHit : BOOLEAN] : o.errHit => o.err}

\* isRateLimitError(response, err): the texts are looked for in the response
\* whatever err is, and in the message of a non-nil err
isRateLimitError(o) == o.respHit \/ (o.err /\ o.errHit)

\* a delay that does not grow
flatDelay(attempt) == baseDelay

\* delay := baseDelay * time.Duration(1<<uint(attempt))
backoffDelay(attempt) == baseDelay * (2 ^ attempt)

\* fmt.Errorf("rate limit exceeded after %d retries: %w", maxRetries, err)
RateLimitExceeded(o) == [o EXCEPT !.err = TRUE, !.errHit = TRUE]

\* fmt.Errorf("all models exhausted"), with an empty response
AllModelsExhausted == [err |-> TRUE, respHit |-> FALSE, errHit |-> FALSE]

\* a chain that goes on after every error
fallsBackAlways(r) == r.err

\* SendPromptWithDir of the Gemini client goes on to the next model: err is
\* not nil and isRateLimitError(response, err) is false
fallsBack(r) == r.err /\ ~ isRateLimitError(r)

\* a call of SendPromptWithDir of the client kind, before the first run
NewCall(kind) ==
    [pc |-> "exec", kind |-> kind, model |-> 1, attempt |-> 0, slept |-> 0,
     log |-> <<>>, result |-> AllModelsExhausted]

\* the log with the run of the model, its attempt number, the sleep before
\* it, and what it returned
Logged(c, o) ==
    Append(c.log, [model |-> c.model, attempt |-> c.attempt, slept |-> c.slept,
                   err |-> o.err, limited |-> isRateLimitError(o)])

\* the call once SendPromptWithModelAndDir has returned r for the model
AfterModel(c, r) ==
    IF fallsBack(r)
    THEN IF c.model < Len(modelFallbackChain)
         THEN [c EXCEPT !.model = @ + 1, !.attempt = 0, !.slept = 0]
         ELSE [c EXCEPT !.pc = "returned", !.result = AllModelsExhausted]
    ELSE [c EXCEPT !.pc = "returned", !.result = r]

\* executeStreamInDir has returned o to the retry loop of
\* SendPromptWithModelAndDir
AfterExec(c, o) ==
    IF isRateLimitError(o)
    THEN IF c.attempt < maxRetries
         THEN [c EXCEPT !.pc = "sleep"]
         ELSE AfterModel(c, RateLimitExceeded(o))
    ELSE AfterModel(c, o)

\* one run of the agent subprocess, and the client up to its next run, its
\* sleep or its return; the Copilot client returns what the run returned
executeStreamInDir ==
    /\ client.pc = "exec"
    /\ \E o \in ExecOutcomes :
          client' = IF client.kind = "copilot"
                    THEN [client EXCEPT !.pc = "returned", !.result = o, !.log = Logged(client, o)]
                    ELSE AfterExec([client EXCEPT !.log = Logged(client, o)], o)
    /\ UNCHANGED <<disk, mem, loop, polls, coords, sem, wtdir, ui, lastRequestTime, scen,
                   wg, hist, now, running, stopCh, user, response, parsed, branches, namers,
                   sink, peer, store>>

\* time.Sleep(delay); continue
BackoffSleep ==
    /\ client.pc = "sleep"
    /\ client' = [client EXCEPT !.pc = "exec", !.slept = backoffDelay(client.attempt),
                                !.attempt = @ + 1]
    /\ UNCHANGED <<disk, mem, loop, polls, coords, sem, wtdir, ui, lastRequestTime, scen,
                   wg, hist, now, running, stopCh, user, response, parsed, branches, namers,
                   sink, peer, store>>

\* ------------------------------------------------------------ the response sink

\* the chunks the callers write
Chunks == {"a", "b"}

\* the sink NewResponseWriter returns: the file has the header, rw.file is
\* the handle; calls are the calls made on the sink and what they returned
NewSink == [pc |-> "open", file |-> "handle", content |-> <<"header">>, calls |-> <<>>]

\* a sink that never finds itself closed
neverClosed(rw) == FALSE

\* if rw.file == nil
isClosed(rw) == rw.file = "nil"

Returns(rw, op, chunk, err) ==
    [rw EXCEPT !.calls = Append(@, [op |-> op, chunk |-> chunk, err |-> err])]

\* WriteChunk, and Write on top of it, under rw.mu: the error of a closed
\* sink, or the chunk written and synced
WriteChunk ==
    /\ sink.pc = "open"
    /\ Len(sink.calls) < MaxSinkCalls
    /\ \E chunk \in Chunks :
          sink' = IF isClosed(sink)
                  THEN Returns(sink, "write", chunk, TRUE)
                  ELSE Returns([sink EXCEPT !.content = Append(@, chunk)], "write", chunk, FALSE)
    /\ UNCHANGED <<disk, mem, loop, polls, coords, sem, wtdir, ui, lastRequestTime, scen,
                   wg, hist, now, running, stopCh, user, response, parsed, branches, namers,
                   client, peer, store>>

\* Close, under rw.mu: nil when the sink is closed, else the footer is
\* written and synced, the file closed and rw.file = nil
Close ==
    /\ sink.pc = "open"
    /\ Len(sink.calls) < MaxSinkCalls
    /\ sink' = IF isClosed(sink)
               THEN Returns(sink, "close", "", FALSE)
               ELSE Returns([sink EXCEPT !.content = Append(@, "footer"), !.file = "nil"],
                            "close", "", FALSE)
    /\ UNCHANGED <<disk, mem, loop, polls, coords, sem, wtdir, ui, lastRequestTime, scen,
                   wg, hist, now, running, stopCh, user, response, parsed, branches, namers,
                   client, peer, store>>

\* ------------------------------------------------- the store, called in turn
\* One goroutine calls the methods of the store one after the other, on an
\* instance it keeps or on one it has just made with NewFileTaskStorage.  In
\* these runs tasks.json holds the JSON document: a map from the id to the
\* object the encoder makes of the record.

\* const ( Pending Status = iota; InProgress; NeedsReview; Completed )
Statuses == <<Pending, InProgress, NeedsReview, Completed>>

\* the number the encoder writes for a Status
StatusNumber(st) == (CHOOSE k \in DOMAIN Statuses : Statuses[k] = st) - 1

\* Encode of a *Task: Status as its number, the strings as they are, a nil
\* pointer as null and another as the object it points to
EncodeTask(t) ==
    [Status |-> StatusNumber(t.status),
     WorktreePath |-> IF t.wt THEN ".worktrees/id" ELSE "",
     BranchName |-> IF t.br THEN "ludwig/name" ELSE "",
     Review |-> IF t.rev THEN "{Question, Options}" ELSE "null",
     ReviewResponse |-> IF t.resp THEN "{ChosenOptionID}" ELSE "null"]

\* Decode into a new Task
DecodeTask(j) ==
    [status |-> Statuses[j.Status + 1],
     wt |-> j.WorktreePath # "",
     br |-> j.BranchName # "",
     rev |-> j.Review # "null",
     resp |-> j.ReviewResponse # "null"]

\* enc.Encode(s.tasks)
Encode(m) == [i \in DOMAIN m |-> EncodeTask(m[i])]

\* json.NewDecoder(file).Decode(&tasks)
Decode(doc) == [i \in DOMAIN doc |-> DecodeTask(doc[i])]

\* tasks.json before the first save
NoFile == [state |-> "absent", tasks |-> EmptyMap]

\* an instance that trusts the map it has
Cached(d, m) == ValidFile(m)

\* What load() makes of the file for an instance whose s.tasks is m: the
\* decoded document, and for a file that does not exist the error
\* os.ErrNotExist, which every caller lets pass, with s.tasks as it was
Reloaded(d, m) == IF d.state = "absent" THEN ValidFile(m) ELSE [d EXCEPT !.tasks = Decode(@)]

\* the ids and the records of the calls
StoreIds == {"task-1", "rapid"}

CompletedTask == [status |-> Completed, wt |-> FALSE, br |-> TRUE, rev |-> TRUE, resp |-> TRUE]

StoreRecords == {NewTask, AnsweredTask, CompletedTask}

\* the instance the method is called on: the one the caller keeps, or the
\* one NewFileTaskStorage has just returned, whose map is empty
StoreInstances == {"same", "new"}

Instance(inst) == IF inst = "same" THEN store.tasks ELSE EmptyMap

\* the caller before its first call
NewStore == [pc |-> "run", tasks |-> EmptyMap, log |-> <<>>]

\* the caller once the method op, called on inst with the id and the
\* record, has left m in s.tasks and returned err and got
StoreCalled(op, inst, id, rec, m, err, got) ==
    [store EXCEPT !.tasks = IF inst = "same" THEN m ELSE @,
                  !.log = Append(@, [op |-> op, inst |-> inst, id |-> id, rec |-> rec,
                                       err |-> err, got |-> got])]

storeFrame == <<mem, loop, polls, coords, sem, wtdir, ui, lastRequestTime, scen, wg, hist,
                now, running, stopCh, user, response, parsed, branches, namers, client,
                sink, peer>>

\* AddTask: load, s.tasks[task.ID] = task, save
AddTask ==
    /\ store.pc = "run"
    /\ Len(store.log) < MaxStoreOps
    /\ \E inst \in StoreInstances, id \in StoreIds, rec \in StoreRecords :
          LET m == AddTaskSet(Reloaded(disk, Instance(inst)), Instance(inst), id, rec)
          IN  /\ disk' = ValidFile(Encode(m))
              /\ store' = StoreCalled("add", inst, id, rec, m, FALSE, <<>>)
    /\ UNCHANGED storeFrame

\* UpdateTask of the caller: load, "task not found" for an id that is not in
\* s.tasks, else s.tasks[task.ID] = task, save
StoreUpdateTask ==
    /\ store.pc = "run"
    /\ Len(store.log) < MaxStoreOps
    /\ \E inst \in StoreInstances, id \in StoreIds, rec \in StoreRecords :
          LET d == Reloaded(disk, Instance(inst))
          IN  IF UpdateTaskFails(d, Instance(inst), id)
              THEN /\ store' = StoreCalled("update", inst, id, rec, load(d, Instance(inst)), TRUE, <<>>)
                   /\ UNCHANGED disk
              ELSE /\ disk' = ValidFile(Encode(UpdateTaskSet(d, Instance(inst), id, rec)))
                   /\ store' = StoreCalled("update", inst, id, rec,
                                            UpdateTaskSet(d, Instance(inst), id, rec), FALSE, <<>>)
    /\ UNCHANGED storeFrame

\* DeleteTask: load, "task not found" for an id that is not in s.tasks, else
\* delete(s.tasks, id), save
DeleteTask ==
    /\ store.pc = "run"
    /\ Len(store.log) < MaxStoreOps
    /\ \E inst \in StoreInstances, id \in StoreIds :
          LET d == Reloaded(disk, Instance(inst))
          IN  IF id \notin DOMAIN load(d, Instance(inst))
              THEN /\ store' = StoreCalled("delete", inst, id, NewTask, load(d, Instance(inst)), TRUE, <<>>)
                   /\ UNCHANGED disk
              ELSE /\ disk' = ValidFile(Encode(DeleteTaskSet(d, Instance(inst), id)))
                   /\ store' = StoreCalled("delete", inst, id, NewTask,
                                            DeleteTaskSet(d, Instance(inst), id), FALSE, <<>>)
    /\ UNCHANGED storeFrame

\* GetTask: load, then s.tasks[id] or "task not found"
GetTask ==
    /\ store.pc = "run"
    /\ Len(store.log) < MaxStoreOps
    /\ \E inst \in StoreInstances, id \in StoreIds :
          LET m == load(Reloaded(disk, Instance(inst)), Instance(inst))
          IN  store' = IF id \in DOMAIN m
                       THEN StoreCalled("get", inst, id, NewTask, m, FALSE, m[id])
                       ELSE StoreCalled("get", inst, id, NewTask, m, TRUE, <<>>)
    /\ UNCHANGED disk
    /\ UNCHANGED storeFrame

\* ListTasks of the caller: load, then the tasks of s.tasks, in no order
StoreListTasks ==
    /\ store.pc = "run"
    /\ Len(store.log) < MaxStoreOps
    /\ \E inst \in StoreInstances :
          LET m == load(Reloaded(disk, Instance(inst)), Instance(inst))
          IN  store' = StoreCalled("list", inst, "", NewTask, m, FALSE, m)
    /\ UNCHANGED disk
    /\ UNCHANGED storeFrame

\* ------------------------------------------------------------ specification

AllOutcomes == {"ok", "review", "err", "sinkerr"}

\* a delay_ms of ten minutes
LongDelayMs == 600000

\* a delay_ms of two milliseconds
ShortDelayMs == 2

\* n tasks in the store at the start; the configuration has the rate limit
\* delayMs; the agents return one of outcomes; the loop polls maxPolls times
\* (0: as often as it likes); the user gives the commands
Scenario(n, delayMs, outcomes, maxPolls, commands) ==
    [numTasks |-> n, delayMs |-> delayMs, outcomes |-> outcomes, maxPolls |-> maxPolls,
     commands |-> commands, maxCommands |-> MaxCommands, maxCalls |-> MaxCalls,
     config |-> "valid"]

\* the store the orchestrator is started on, written by the UI and by earlier
\* runs: k records first, the others rest (ids are uuids; which of them come
\* first does not matter)
StoreOf(n, k, first, rest) == [i \in 1..n |-> IF i <= k THEN first ELSE rest]

NoHistory(n) == [invoked |-> [i \in 1..n |-> 0], removed |-> [i \in 1..n |-> 0],
                  lastStart |-> 0, files |-> {}, opened |-> 0]

\* the caller of Start and Stop between two calls
IdleUser == [pc |-> "idle", n |-> 0, cmd |-> "none", found |-> FALSE]

\* no output has been parsed
NotParsed == [done |-> FALSE]

\* no call of the agent client is followed
NoClient == [pc |-> "none"]

\* no response sink is followed
NoSink == [pc |-> "none"]

\* no caller of the store is followed
NoStore == [pc |-> "none"]

\* the orchestrator after Start, when the loop has made its store
InitOrch(first, rest, sc) ==
    /\ \E k \in 0..sc.numTasks : disk = ValidFile(StoreOf(sc.numTasks, k, first, rest))
    /\ mem = EmptyMap
    /\ loop = IdleLoop
    /\ polls = 0
    /\ coords = EmptyBag
    /\ sem = 0
    /\ wtdir = {i \in 1..sc.numTasks : disk.tasks[i].wt}
    /\ ui = IdleUI(0)
    /\ lastRequestTime = 0
    /\ scen = sc
    /\ wg = 1
    /\ hist = NoHistory(sc.numTasks)
    /\ now = 1
    /\ running = TRUE
    /\ stopCh = "open"
    /\ user = IdleUser
    /\ peer = IdleUser
    /\ response = <<>>
    /\ parsed = NotParsed
    /\ branches = {}
    /\ namers = <<>>
    /\ client = NoClient
    /\ sink = NoSink
    /\ store = NoStore

CoordStep ==
    \/ CreateWorktree
    \/ UpdateTask
    \/ saveCreate
    \/ saveEncode
    \/ NewResponseWriter
    \/ SendPromptWithDir
    \/ RemoveWorktree

LoopStep == ListTasks \/ TryAcquire \/ EndIteration

UIStep == Command \/ uiSaveCreate \/ uiSaveEncode

\* a millisecond passes
Tick ==
    /\ now < MaxTime
    /\ now' = now + 1
    /\ UNCHANGED <<disk, mem, loop, polls, coords, sem, wtdir, ui, lastRequestTime, scen,
                   wg, hist, running, stopCh, user, response, parsed, branches, namers, client, sink, peer, store>>

Next == CoordStep \/ LoopStep

\* one polling iteration over a store of answered and new tasks
Init == InitOrch(AnsweredTask, NewTask, Scenario(NumTasks, 0, AllOutcomes, MaxPolls, {}))

Spec == Init /\ [][Next]_vars

\* the same with agents that succeed and ask for nothing, and a rate limit
\* that lets one request pass within the run
InitQuiet == InitOrch(AnsweredTask, NewTask, Scenario(NumTasks, LongDelayMs, {"ok"}, MaxPolls, {}))

SpecQuiet == InitQuiet /\ [][Next]_vars

\* the same with one more polling iteration
InitRepoll == InitOrch(AnsweredTask, NewTask, Scenario(NumTasks, LongDelayMs, {"ok"}, MaxPolls + 1, {}))

SpecRepoll == InitRepoll /\ [][Next]_vars

\* more Pending tasks than the semaphore has slots
InitCap == InitOrch(NewTask, NewTask, Scenario(CapTasks, LongDelayMs, {"ok"}, MaxPolls + 1, {}))

SpecCap == InitCap /\ [][Next]_vars

\* one polling iteration over as many Pending tasks, with a rate limit that
\* lets one request pass within the run
InitFull == InitOrch(NewTask, NewTask, Scenario(CapTasks, LongDelayMs, {"ok"}, MaxPolls, {}))

SpecFull == InitFull /\ [][Next]_vars

\* one polling iteration over Pending tasks, with agents that succeed and ask
\* for nothing, and no rate limit
InitDone == InitOrch(NewTask, NewTask, Scenario(NumTasks, 0, {"ok"}, MaxPolls, {}))

\* the same when the scheduler lets the coordinators and the polling loop
\* come to run
SpecDoneFair ==
    /\ InitDone
    /\ [][Next]_vars
    /\ WF_vars(CoordStep)
    /\ WF_vars(LoopStep)

\* one task, answered or new, and a loop that polls as often as it likes,
\* with agents that succeed and ask for nothing
InitResume == InitOrch(AnsweredTask, NewTask, Scenario(SoloTasks, 0, {"ok"}, 0, {}))

\* where a coordinator can be: the statement it is at and,
\* in UpdateTask, how far it has come
Places ==
    ({"ip", "rf", "done", "clear"} \X {"call", "create", "encode", "stale"})
        \cup ({"wt", "sink", "agent", "teardown"} \X {"-"})

Place(c) == <<c.pc, c.ph>>

\* the step of a coordinator at p
StepAt(p) ==
    CASE p[2] = "call" -> UpdateTask
      [] p[2] = "create" -> saveCreate
      [] p[2] \in {"encode", "stale"} -> saveEncode
      [] p[1] = "wt" -> CreateWorktree
      [] p[1] = "sink" -> NewResponseWriter
      [] p[1] = "agent" -> SendPromptWithDir
      [] OTHER -> RemoveWorktree

\* a coordinator at p takes its step
Leaves(p) ==
    /\ \E c \in BagToSet(coords) : Place(c) = p
    /\ StepAt(p)
    /\ CopiesIn(p, BagOfAll(Place, coords')) < CopiesIn(p, BagOfAll(Place, coords))

\* the scheduler lets the polling loop come to run, and every coordinator
\* wherever it is
SpecResumeFair ==
    /\ InitResume
    /\ [][Next]_vars
    /\ WF_vars(LoopStep)
    /\ \A p \in Places : WF_vars(Leaves(p))

\* two polling iterations over a store with records an agent error has left,
\* with agents that succeed or fail, and a rate limit that lets one request
\* pass within the run
InitRetry == InitOrch(FailedTask, NewTask, Scenario(NumTasks, LongDelayMs, {"ok", "err"}, MaxPolls + 1, {}))

SpecRetry == InitRetry /\ [][Next]_vars

\* one polling iteration with a rate limit of two milliseconds, while time
\* passes
InitRate == InitOrch(AnsweredTask, NewTask, Scenario(NumTasks, ShortDelayMs, {"ok"}, MaxPolls, {}))

NextRate == Next \/ Tick

SpecRate == InitRate /\ [][NextRate]_vars

\* the same, seen with the coordinators that sleep in applyRateLimit
NextMutex == NextRate \/ LockRateLimit

SpecMutex == InitRate /\ [][NextMutex]_vars

\* two polling iterations over a store of one task, answered or new, with
\* agents that succeed and ask for nothing, and no rate limit
InitTwice == InitOrch(AnsweredTask, NewTask, Scenario(SoloTasks, 0, {"ok"}, MaxPolls + 1, {}))

SpecTwice == InitTwice /\ [][Next]_vars

\* two polling iterations over a store of one task, answered or new, with
\* agents that succeed or fail at once, while time passes
InitAgain == InitOrch(AnsweredTask, NewTask, Scenario(SoloTasks, 0, {"ok", "err"}, MaxPolls + 1, {}))

SpecAgain == InitAgain /\ [][NextRate]_vars

\* one polling iteration over a store of one task, answered or new, while
\* the user deletes a task
InitDelete == InitOrch(AnsweredTask, NewTask, Scenario(SoloTasks, 0, {"ok"}, MaxPolls, {"delete"}))

NextUI == Next \/ UIStep

SpecDelete == InitDelete /\ [][NextUI]_vars

\* one polling iteration with agents that succeed, with or without a review
\* block in their output
InitTerminal == InitOrch(AnsweredTask, NewTask, Scenario(NumTasks, 0, {"ok", "review"}, MaxPolls, {}))

SpecTerminal == InitTerminal /\ [][Next]_vars

\* two polling iterations over a store of records an agent error has left,
\* whose worktrees are still there, and one task that is answered or new;
\* the agents return whatever they can
InitSlots ==
    /\ \E last \in {AnsweredTask, NewTask} :
          /\ InitOrch(FailedTask, last, Scenario(CapTasks, 0, AllOutcomes, MaxPolls + 1, {}))
          /\ disk.tasks[CapTasks - 1] = FailedTask
          /\ disk.tasks[CapTasks] = last

SpecSlots == InitSlots /\ [][Next]_vars

\* the process before the first Start, with the file d as tasks.json, in the
\* scenario sc
Unstarted(d, sc) ==
    /\ disk = d
    /\ mem = EmptyMap
    /\ loop = NoLoop
    /\ polls = 0
    /\ coords = EmptyBag
    /\ sem = 0
    /\ wtdir = {i \in DOMAIN d.tasks : d.tasks[i].wt}
    /\ ui = IdleUI(0)
    /\ lastRequestTime = 0
    /\ scen = sc
    /\ wg = 0
    /\ hist = NoHistory(sc.numTasks)
    /\ now = 1
    /\ running = FALSE
    /\ stopCh = "nil"
    /\ user = IdleUser
    /\ peer = IdleUser

\* the same with the tasks m in tasks.json and a valid configuration
BeforeStart(m) == Unstarted(ValidFile(m), Scenario(SoloTasks, 0, {"ok"}, MaxPolls + 1, {}))

\* before the first Start, with a store of one task
InitLife ==
    /\ \E k \in 0..SoloTasks : BeforeStart(StoreOf(SoloTasks, k, AnsweredTask, NewTask))
    /\ response = <<>>
    /\ parsed = NotParsed
    /\ branches = {}
    /\ namers = <<>>
    /\ client = NoClient
    /\ sink = NoSink
    /\ store = NoStore

\* the same with a .ludwig/config.json that does not decode
InitBadConfig ==
    /\ \E k \in 0..SoloTasks :
          Unstarted(ValidFile(StoreOf(SoloTasks, k, AnsweredTask, NewTask)),
                    [Scenario(SoloTasks, 0, {"ok"}, MaxPolls + 1, {}) EXCEPT !.config = "malformed"])
    /\ response = <<>>
    /\ parsed = NotParsed
    /\ branches = {}
    /\ namers = <<>>
    /\ client = NoClient
    /\ sink = NoSink
    /\ store = NoStore

UserStep == Start \/ Stop \/ StopReturn

\* no call of save is between its store and the end of its write
NoSave ==
    /\ ui.pc = "idle"
    /\ \A c \in BagToSet(coords) : c.ph \notin {"create", "encode", "stale"}

\* tasks.json is left without a complete document, by a save that another
\* process has begun with os.Create and not ended
Corrupted ==
    /\ disk.state = "valid"
    /\ NoSave
    /\ disk' = Truncated(disk)
    /\ UNCHANGED <<mem, loop, polls, coords, sem, wtdir, ui, lastRequestTime, scen, wg, hist,
                   outside>>

\* before Start, with a store of one task that waits for its answer or is
\* new, a user who answers and deletes, and a file that can go bad
InitCorrupt ==
    /\ \E k \in 0..SoloTasks :
          Unstarted(ValidFile(StoreOf(SoloTasks, k, ReviewTask, NewTask)),
                    Scenario(SoloTasks, 0, {"ok"}, MaxPolls, {"delete", "respond"}))
    /\ response = <<>>
    /\ parsed = NotParsed
    /\ branches = {}
    /\ namers = <<>>
    /\ client = NoClient
    /\ sink = NoSink
    /\ store = NoStore

NextCorrupt == Next \/ UIStep \/ Start \/ LoopStart \/ Corrupted

SpecCorrupt == InitCorrupt /\ [][NextCorrupt]_vars

NextLife == Next \/ UserStep \/ LoopStart \/ LoopExit

PeerStep == PeerStart \/ PeerStop \/ PeerStopReturn

\* two goroutines call Start and Stop
NextCallers == NextLife \/ PeerStep

SpecCallers == InitLife /\ [][NextCallers]_vars

SpecLife == InitLife /\ [][NextLife]_vars

SpecBadConfig == InitBadConfig /\ [][NextLife]_vars

\* the same when the scheduler lets every goroutine that can run come to
\* run: the coordinators, the polling loop, and the caller of Stop
SpecLifeFair ==
    /\ SpecLife
    /\ WF_vars(CoordStep)
    /\ WF_vars(LoopStep \/ LoopStart \/ LoopExit)
    /\ WF_vars(StopReturn)

\* parseReviewRequest on the agent outputs
InitParse ==
    /\ BeforeStart(EmptyMap)
    /\ response \in Outputs
    /\ parsed = NotParsed
    /\ branches = {}
    /\ namers = <<>>
    /\ client = NoClient
    /\ sink = NoSink
    /\ store = NoStore

NextParse == ParseReview

SpecParse == InitParse /\ [][NextParse]_vars

\* the slugs of the task names
Slugs == {"ludwig/fix-login-bug", "ludwig/add-unit-tests"}

\* Pending tasks, some with the same name, admitted in one polling iteration
\* into a repository that has branches of earlier tasks
InitNames ==
    /\ BeforeStart(EmptyMap)
    /\ response = <<>>
    /\ parsed = NotParsed
    /\ branches \in SUBSET {BranchName(s, k) : s \in Slugs, k \in 0..(MaxBranches - 1)}
    /\ namers \in {[i \in 1..NumNamers |-> Namer(f[i])] : f \in [1..NumNamers -> Slugs]}
    /\ client = NoClient
    /\ sink = NoSink
    /\ store = NoStore

NextNames == GenerateName \/ GitWorktreeAdd \/ Readmit

SpecNames == InitNames /\ [][NextNames]_vars

\* a call of SendPromptWithDir of one of the clients
InitClient ==
    /\ BeforeStart(EmptyMap)
    /\ response = <<>>
    /\ parsed = NotParsed
    /\ branches = {}
    /\ namers = <<>>
    /\ client \in {NewCall("gemini"), NewCall("copilot")}
    /\ sink = NoSink
    /\ store = NoStore

NextClient == executeStreamInDir \/ BackoffSleep

SpecClient == InitClient /\ [][NextClient]_vars

\* the same when every agent subprocess terminates and every sleep ends
SpecClientFair == SpecClient /\ WF_vars(NextClient)

\* a sink that has just been opened, and goroutines that write to it and
\* close it
InitSink ==
    /\ BeforeStart(EmptyMap)
    /\ response = <<>>
    /\ parsed = NotParsed
    /\ branches = {}
    /\ namers = <<>>
    /\ client = NoClient
    /\ sink = NewSink
    /\ store = NoStore

NextSink == WriteChunk \/ Close

SpecSink == InitSink /\ [][NextSink]_vars

\* a goroutine that calls the store, before tasks.json exists
InitStore ==
    /\ Unstarted(NoFile, Scenario(SoloTasks, 0, {"ok"}, MaxPolls, {}))
    /\ response = <<>>
    /\ parsed = NotParsed
    /\ branches = {}
    /\ namers = <<>>
    /\ client = NoClient
    /\ sink = NoSink
    /\ store = NewStore

NextStore == AddTask \/ StoreUpdateTask \/ DeleteTask \/ GetTask \/ StoreListTasks

SpecStore == InitStore /\ [][NextStore]_vars

\* ------------------------------------------------------------------ claims

InFlight(i) == {c \in BagToSet(coords) : c.task = i}

\* the content of tasks.json, and between os.Create and the end of the
\* encoder's write the last complete content
File == disk.tasks

NumInProgress == Cardinality({i \in DOMAIN File : File[i].status = InProgress})

\* C1: every change of a task's persisted Status follows an edge of the
\* state machine (Pending to InProgress, InProgress to Completed, to
\* NeedsReview or back to Pending, NeedsReview to InProgress), and Completed
\* is never left.
Edges == {<<Pending, InProgress>>, <<InProgress, Completed>>,
          <<InProgress, NeedsReview>>, <<InProgress, Pending>>,
          <<NeedsReview, InProgress>>}

C1_StatusEdges ==
    [][\A i \in DOMAIN File \cap DOMAIN File' :
          File'[i].status # File[i].status =>
              <<File[i].status, File'[i].status>> \in Edges]_vars

\* C2: at every instant at most three tasks are persisted InProgress.
C2_AtMostThreeInProgress == NumInProgress <= SemaphoreCap

\* C3: no task has two coordinators in flight.
C3_AdmittedOnce ==
    \A c \in BagToSet(coords) :
        /\ CopiesIn(c, coords) = 1
        /\ InFlight(c.task) = {c}

\* C4: a persisted record that is Pending or Completed has no WorktreePath.
C4_NoWorktreeWhenIdle ==
    \A i \in DOMAIN File :
        File[i].status \in {Pending, Completed} => ~ File[i].wt

\* C5: a persisted record that is InProgress has a WorktreePath and a
\* BranchName.
C5_InProgressHasWorktree ==
    \A i \in DOMAIN File :
        File[i].status = InProgress => File[i].wt /\ File[i].br

\* C7: once an iteration has tried a Pending task, it has tried every
\* resume-eligible task of its list.
C7_ResumeFirst ==
    loop.newTried # {} => ResumeEligible(loop.tasks) \subseteq loop.resumeTried

\* C7 witness: an iteration whose list has a resume-eligible task has
\* admitted a Pending one.
C7_Witness ==
    /\ loop.newTried # {}
    /\ ResumeEligible(loop.tasks) # {}
    /\ \E c \in BagToSet(coords) : c.kind = "new" /\ c.task \in loop.newTried

\* C9: tasks.json always parses.
C9_FileAlwaysParses == disk.state = "valid"

\* the coordinators of task i that are about to create the worktree of a
\* record that has a WorktreePath from an earlier, failed invocation
Retrying(cs, i) ==
    [c \in {e \in BagToSet(cs) : e.task = i /\ e.pc = "wt" /\ e.t.wt} |-> CopiesIn(c, cs)]

\* C11: a task that went back to Pending after a fatal agent error and is
\* admitted again reaches InProgress again: its coordinator does not give up
\* before it has persisted InProgress.
C11_RetryReachesInProgress ==
    [][\A i \in DOMAIN File :
          ~ (/\ BagCardinality(Retrying(coords', i)) < BagCardinality(Retrying(coords, i))
             /\ sem' < sem)]_vars

\* C12: with a delay of D > 0 in the configuration, an agent invocation
\* starts at least D after the start of the one before it, whichever
\* coordinators make them.
C12_RateLimitSpacing ==
    [][(scen.delayMs > 0 /\ hist'.invoked # hist.invoked /\ hist.lastStart # 0)
          => hist'.lastStart - hist.lastStart >= scen.delayMs]_vars

\* C13: when every agent invocation succeeds without a review block, the
\* agent is invoked once for a task and its worktree is committed and removed
\* once, and when the task's coordinator has finished its record is Completed
\* without a WorktreePath.
C13_ExactlyOnce ==
    \A i \in DOMAIN File :
        /\ hist.invoked[i] <= 1
        /\ hist.removed[i] <= 1
        /\ (hist.invoked[i] = 1 /\ InFlight(i) = {} /\ disk.state = "valid")
              => (hist.removed[i] = 1 /\ File[i].status = Completed /\ ~ File[i].wt)

\* the coordinators at work in the worktree of task i: in the agent
\* invocation, or in CommitAnyChanges and RemoveWorktree
InWorktree(cs, i) ==
    [c \in {e \in BagToSet(cs) : e.task = i /\ e.pc \in {"agent", "teardown"}} |->
        CopiesIn(c, cs)]

\* C14: at no instant are two coordinators at work in the same worktree
\* directory.
C14_OneOwnerPerWorktree ==
    \A i \in DOMAIN File : BagCardinality(InWorktree(coords, i)) <= 1

\* the step is the call cmd of the user
CallOf(cmd) == user'.n = user.n + 1 /\ user'.cmd = cmd

\* C15: after a call of Start running is true; a Start that finds the
\* orchestrator running leaves the polling loop, the stop channel, the
\* semaphore and the wait group as they are; a Start that finds it stopped
\* finds no loop and no coordinator of an earlier run, and spawns a loop with
\* a stop channel and a semaphore of its own.
C15_StartIdempotent ==
    [][CallOf("start") =>
          /\ running'
          /\ running => UNCHANGED <<loop, stopCh, sem, wg, coords>>
          /\ ~ running => /\ loop = NoLoop /\ coords = EmptyBag
                          /\ loop' = NewLoop /\ stopCh' = "open"
                          /\ sem' = 0 /\ wg' = 1]_vars

\* C15 witness: Start has been called while the loop of an earlier Start and
\* a coordinator were running.
C15_Witness ==
    /\ user.cmd = "start" /\ user.found
    /\ loop.pc \in {"poll", "pass"}
    /\ coords # EmptyBag

\* Stop has returned and nothing has been called since
Stopped == user.cmd = "stop" /\ user.pc = "idle"

\* C16: a Stop that finds the orchestrator stopped changes nothing; when Stop
\* has returned the polling loop has exited, no coordinator is in flight, no
\* semaphore slot is held, running is false, and tasks.json is not written
\* until the next call.
C16_StopSynchronous ==
    [][/\ (CallOf("stop") /\ ~ running) =>
              UNCHANGED <<running, stopCh, loop, coords, sem, wg, disk>>
       /\ Stopped' => (~ running' /\ loop' = NoLoop /\ coords' = EmptyBag
                          /\ sem' = 0 /\ wg' = 0)
       /\ Stopped => disk' = disk]_vars

\* C16 witness: Stop waits for a coordinator after the polling loop has
\* exited.
C16_Witness ==
    /\ user.pc = "wait"
    /\ loop = NoLoop
    /\ coords # EmptyBag

\* C17: a Stop that waits returns, and once the stop channel is closed and
\* the loop is at the top of an iteration no coordinator is spawned.
C17_StopObserved ==
    /\ (user.pc = "wait") ~> (user.pc = "idle")
    /\ [][(stopCh = "closed" /\ loop.pc \in {"poll", "none"})
             => BagCardinality(coords') <= BagCardinality(coords)]_vars

\* C17 witness: Stop waits while the loop is in an iteration that has
\* admitted a task.
C17_Witness ==
    /\ user.pc = "wait"
    /\ loop.pc = "pass"
    /\ coords # EmptyBag

\* the output holds one well-formed review block
WellFormed(f) == f.open /\ f.close /\ f.question # <<>> /\ ~ f.again

\* C18: for an output with one well-formed review block, wherever the block
\* stands, parseReviewRequest returns a review with the question and the
\* options of the block, in order, and the trimmed text before the opening
\* sentinel as work in progress.
C18_ReviewRoundTrip ==
    (parsed.done /\ WellFormed(response)) =>
        /\ parsed.has
        /\ ~ parsed.review.nil
        /\ parsed.review.question = response.question
        /\ parsed.review.options = response.options
        /\ parsed.wip = trim(response.prefix)

\* parseReviewRequest has returned no review
Rejected(p) == ~ p.has /\ p.review.nil /\ p.wip = <<>>

\* C19: parseReviewRequest returns no review, and no work in progress,
\* exactly when the output has no opening sentinel, or no closing sentinel
\* after it, or no Question: line between them; of several blocks it reads
\* the first.
C19_ReviewRejection ==
    parsed.done =>
        /\ Rejected(parsed) <=>
              (~ response.open \/ ~ response.close \/ response.question = <<>>)
        /\ parsed.has => parsed.review.question = response.question

\* C20: the name GenerateBranchName has returned was no branch at its call,
\* and it is the slug, or slug-k for the smallest k whose name was unused;
\* no two tasks are recorded with the same BranchName.
C20_BranchNamesUnique ==
    /\ \A i \in DOMAIN namers :
          namers[i].pc # "gen" =>
              /\ namers[i].name \notin namers[i].seen
              /\ namers[i].name.slug = namers[i].slug
              /\ \A k \in 0..(namers[i].name.k - 1) :
                    BranchName(namers[i].slug, k) \in namers[i].seen
    /\ \A i, j \in DOMAIN namers :
          (i # j /\ namers[i].pc = "recorded" /\ namers[j].pc = "recorded")
              => namers[i].name # namers[j].name

\* C20 witness: two tasks with the same name have generated the same branch
\* name, with a suffix, at the same time; one has its branch and the other
\* has failed.
C20_Witness ==
    \E i, j \in DOMAIN namers :
        /\ namers[i].pc = "recorded" /\ namers[j].pc = "failed"
        /\ namers[i].name = namers[j].name
        /\ namers[i].name.k > 0

\* C23: a sink is opened on a file that was not among the response files
\* before.
C23_FreshResponseFile ==
    [][hist'.opened # hist.opened => hist'.files # hist.files]_vars

\* C25: a delete command does not take a task whose persisted Status is
\* InProgress out of the store.
C25_NoDeleteInProgress ==
    [][(ui.pc = "idle" /\ ui'.pc = "create") =>
          \A i \in DOMAIN File : File[i].status = InProgress => i \in DOMAIN ui'.mem]_vars

\* C29: where the user adds no task, no step puts a task into tasks.json
\* that was not in it: an UpdateTask of a task that is no longer in the store
\* does not bring it back.
C29_UpdateNeverCreates ==
    [][DOMAIN File' \subseteq DOMAIN File]_vars

\* C26: once the coordinator of a task has committed and removed the worktree
\* and finished, the persisted record is Completed, without a WorktreePath
\* and without a BranchName, and the worktree directory is gone.
C26_CompletedRecordCleared ==
    \A i \in DOMAIN File :
        (hist.removed[i] > 0 /\ InFlight(i) = {} /\ disk.state = "valid")
            => /\ File[i].status = Completed
               /\ ~ File[i].wt
               /\ ~ File[i].br
               /\ i \notin wtdir

\* C27: a persisted record that is NeedsReview has a Review.
C27_NeedsReviewHasReview ==
    \A i \in DOMAIN File : File[i].status = NeedsReview => File[i].rev

\* C28: when LoadConfig returns an error, no polling loop runs and no task is
\* admitted.
C28_BadConfigNoLoop ==
    LoadConfig(scen).err => (loop.pc \in {"none", "start"} /\ coords = EmptyBag)

\* C30: while tasks.json does not parse and no save that began before is at
\* work, no step changes the file, no call of the store gets to its save,
\* NewFileTaskStorage ends the loop that called it, and no list gives the
\* loop tasks.
C30_CorruptNotRepaired ==
    [][(disk.state = "partial" /\ NoSave) =>
          /\ disk' = disk
          /\ NoSave'
          /\ loop.pc = "start" => loop'.pc \in {"start", "none"}
          /\ loop.pc = "poll" => loop' = loop]_vars

\* C30 witness: the file does not parse, the loop of a Start has ended in
\* NewFileTaskStorage, and the user has given a command.
C30_Witness ==
    /\ disk.state = "partial" /\ NoSave
    /\ running /\ loop = NoLoop
    /\ ui.n > 0

\* the calls of Close among the calls on the sink
Closes(rw) == {k \in 1..Len(rw.calls) : rw.calls[k].op = "close"}

\* the chunks of calls k.. that were written without an error, in the order
\* of the calls
RECURSIVE WrittenFrom(_, _)
WrittenFrom(rw, k) ==
    IF k > Len(rw.calls)
    THEN <<>>
    ELSE (IF rw.calls[k].op = "write" /\ ~ rw.calls[k].err THEN <<rw.calls[k].chunk>> ELSE <<>>)
             \o WrittenFrom(rw, k + 1)

\* C24: a write returns an error exactly when a Close came before it; every
\* Close returns nil; the file is the header, the chunks of the writes that
\* returned no error in the order of the writes, and one footer once Close
\* has been called.
C24_CloseProtocol ==
    sink.pc = "open" =>
        /\ \A k \in 1..Len(sink.calls) :
              IF sink.calls[k].op = "write"
              THEN sink.calls[k].err <=> (\E j \in Closes(sink) : j < k)
              ELSE ~ sink.calls[k].err
        /\ sink.content = <<"header">> \o WrittenFrom(sink, 1)
                             \o (IF Closes(sink) # {} THEN <<"footer">> ELSE <<>>)

\* C24 witness: a chunk was written, the sink closed, a write attempted, and
\* the sink closed again.
C24_Witness ==
    /\ sink.pc = "open"
    /\ \E i, j, k, l \in 1..Len(sink.calls) :
          /\ i < j /\ j < k /\ k < l
          /\ sink.calls[i].op = "write" /\ sink.calls[j].op = "close"
          /\ sink.calls[k].op = "write" /\ sink.calls[l].op = "close"

\* the runs k of the log that follow a run of the same model
Retries(c) == {k \in 2..Len(c.log) : c.log[k].model = c.log[k - 1].model}

\* the runs k of the log that follow a run of another model
Fallbacks(c) == {k \in 2..Len(c.log) : c.log[k].model # c.log[k - 1].model}

\* C21: a model is run again only after a run classified as rate limited, at
\* most three times, after sleeps of 30 s, 60 s and 120 s; a fourth
\* rate-limited run is returned as an error; a run that is not classified as
\* rate limited is followed by no sleep; and the call returns.
C21_BoundedRetry ==
    /\ [](/\ \A k \in Retries(client) :
                /\ client.log[k - 1].limited
                /\ client.log[k].attempt = client.log[k - 1].attempt + 1
                /\ client.log[k].attempt <= 3
                /\ client.log[k].slept = 30 * (2 ^ (client.log[k].attempt - 1))
          /\ \A k \in 1..Len(client.log) :
                (k \notin Retries(client)) =>
                    (client.log[k].attempt = 0 /\ client.log[k].slept = 0)
          /\ (client.pc = "sleep") => client.log[Len(client.log)].limited
          /\ (client.pc = "returned" /\ client.log[Len(client.log)].limited
                 /\ client.log[Len(client.log)].attempt = 3)
                => client.result.err)
    /\ <>(client.pc = "returned")

\* C21 witness: a model has been run four times, and the fourth run was
\* rate limited too.
C21_Witness ==
    /\ client.pc = "returned"
    /\ client.log[Len(client.log)].attempt = 3
    /\ client.log[Len(client.log)].limited

\* C22: the models are run in the order of the chain; a run that succeeds is
\* the last; the next model is run only after a failure of the current one
\* that is not a rate limit; a call of the client with the chain that has
\* returned after a rate-limited run has returned that error, and only a call
\* that has run the last model returns another error.
C22_FallbackChain ==
    /\ \A k \in 1..Len(client.log) :
          /\ (k = 1) => client.log[k].model = 1
          /\ (k \in Fallbacks(client)) =>
                /\ client.log[k].model = client.log[k - 1].model + 1
                /\ client.log[k - 1].err /\ ~ client.log[k - 1].limited
          /\ (~ client.log[k].err /\ ~ client.log[k].limited) =>
                (k = Len(client.log) /\ client.pc = "returned" /\ ~ client.result.err)
    /\ (client.pc = "returned" /\ client.kind = "gemini"
           /\ client.log[Len(client.log)].limited)
          => (client.result.err /\ isRateLimitError(client.result))
    /\ (client.pc = "returned" /\ client.log[Len(client.log)].err)
          => client.result.err
    /\ (client.pc = "returned" /\ client.kind = "gemini" /\ client.result.err
           /\ ~ isRateLimitError(client.result))
          => client.log[Len(client.log)].model = Len(modelFallbackChain)

\* C22 witness: the third model has succeeded after the first two have
\* failed, the second after a rate-limited run.
C22_Witness ==
    /\ client.pc = "returned" /\ ~ client.result.err
    /\ client.log[Len(client.log)].model = 3
    /\ \E k \in Retries(client) : client.log[k].model = 2

\* C32: the coordinators in flight are as many as the semaphore slots held,
\* and at most three; a coordinator that exits takes one slot with it, and a
\* coordinator is spawned with the slot the loop has acquired for it.
C32_SemaphoreAccounting ==
    /\ BagCardinality(coords) = sem
    /\ sem <= 3
    /\ wg = sem + 1

\* C32 witness: every slot is held, the iteration has passed over a task it
\* could not admit, and a coordinator is at the end of its last save.
C32_Witness ==
    /\ sem = 3
    /\ loop.pc = "pass"
    /\ \E i \in loop.newTried \cup loop.resumeTried : InFlight(i) = {}
    /\ \E c \in BagToSet(coords) : c.ph = "encode" /\ AfterUpdate(c, TRUE) = "exit"

\* a new-task coordinator of task i gives up at GenerateBranchName or
\* CreateWorktree in this step
Aborts(i) ==
    /\ BagCardinality([c \in {e \in BagToSet(coords') : e.task = i /\ e.pc = "wt"} |->
                            CopiesIn(c, coords')])
          < BagCardinality([c \in {e \in BagToSet(coords) : e.task = i /\ e.pc = "wt"} |->
                                CopiesIn(c, coords)])
    /\ sem' < sem

\* C33: when GenerateBranchName or CreateWorktree fails the coordinator
\* exits and changes nothing: the persisted record is Pending without
\* BranchName and WorktreePath, the task has no worktree directory, no sink
\* has been opened and no agent invoked.
C33_AbortLeavesNoTrace ==
    [][\A i \in DOMAIN File :
          Aborts(i) =>
              /\ disk' = disk /\ wtdir' = wtdir /\ hist' = hist
              /\ File'[i] = NewTask
              /\ i \notin wtdir']_vars

\* C34: the save that makes a new task's persisted Status NeedsReview writes
\* its Review (and WorkInProgress) with it, and the record keeps WorktreePath
\* and BranchName, and the worktree directory is there and has not been
\* removed.
C34_ReviewPersistedWhole ==
    [][\A i \in DOMAIN File \cap DOMAIN File' :
          (File[i].status # NeedsReview /\ File'[i].status = NeedsReview) =>
              /\ File'[i].rev
              /\ File'[i].wt /\ File'[i].br
              /\ i \in wtdir' /\ hist'.removed[i] = 0]_vars

\* the coordinators of the resume path whose agent invocation has returned
AfterResume == {c \in BagToSet(coords) : c.kind = "resume" /\ c.pc \notin {"ip", "sink", "limit", "sinkerr", "rf", "agent"}}

\* C35: where every agent invocation succeeds, a resume coordinator whose
\* agent has returned has set Status = Completed, whatever the output held,
\* calls UpdateTask with it, and goes on to commit and remove the worktree
\* and to clear WorktreePath; it never takes the review exit and never sets
\* NeedsReview.
C35_ResumeTerminal ==
    /\ [](\A c \in AfterResume :
             /\ c.t.status = Completed
             /\ c.pc \in {"done", "teardown", "clear"}
             /\ c.pc = "done" => (c.t.wt /\ hist.removed[c.task] = 0)
             /\ c.pc = "clear" => (~ c.t.wt /\ hist.removed[c.task] > 0))
    /\ [][\A i \in DOMAIN File :
             (\E c \in AfterResume : c.task = i /\ c.pc = "done")
                 /\ ~ (\E c \in AfterResume' : c.task = i /\ c.pc = "done")
                 => \E c \in AfterResume' : c.task = i /\ c.pc = "teardown"]_vars

\* C35 witness: the worktree of an answered task has been committed and
\* removed by its resume coordinator, in a run where the agent of a new task
\* has returned a review block.
C35_Witness ==
    /\ \E c \in AfterResume : c.pc = "clear" /\ hist.removed[c.task] = 1
    /\ \E c \in BagToSet(coords) : c.kind = "new" /\ c.pc = "rev"

\* the resume coordinators of task i whose agent, or whose sink, has failed
\* and that are in the UpdateTask of the revert
Reverting(cs, i) ==
    [c \in {e \in BagToSet(cs) : e.task = i /\ e.kind = "resume" /\ e.pc \in {"agerr", "sinkerr"}} |->
        CopiesIn(c, cs)]

\* C36: when a resume coordinator whose agent or sink has failed exits, the
\* persisted record is the one it was admitted with, NeedsReview with its
\* ReviewResponse, Review, WorktreePath and BranchName, the worktree
\* directory is in place, and a list of the store finds the task
\* resume-eligible.
C36_ResumeRevert ==
    [][\A i \in DOMAIN File :
          (BagCardinality(Reverting(coords', i)) < BagCardinality(Reverting(coords, i))
             /\ sem' < sem) =>
              /\ disk'.state = "valid"
              /\ File'[i] = AnsweredTask
              /\ i \in wtdir'
              /\ i \in ResumeEligible(load(disk', EmptyMap))]_vars

\* the coordinators inside aiClient.SendPromptWithDir
InAgent == [c \in {e \in BagToSet(coords) : e.pc = "agent"} |-> CopiesIn(c, coords)]

\* C37: no coordinator holds the rate-limit mutex while it is in its agent
\* invocation or on the way to it: when no coordinator is in applyRateLimit,
\* one that comes to it goes on or takes the mutex and sleeps, and one that
\* has slept through the delay goes on, whatever agent invocations are
\* running.
C37_MutexNotAcrossAgent ==
    /\ Cardinality({c \in BagToSet(coords) : c.pc = "limit"}) <= 1
    /\ \A c \in BagToSet(coords) :
          /\ (c.pc = "sink" /\ ~ \E e \in BagToSet(coords) : e.pc = "limit")
                => ENABLED (LockRateLimit \/ NewResponseWriter)
          /\ (c.pc = "limit" /\ RateLimitOpen) => ENABLED NewResponseWriter

\* C37 witness: with a delay in the configuration two coordinators are in
\* their agent invocations at the same time, the second of them less than
\* the delay after it has left applyRateLimit.
C37_Witness ==
    /\ LoadConfig(scen).delayMs > 0
    /\ BagCardinality(InAgent) >= 2
    /\ lastRequestTime > 1
    /\ now - lastRequestTime < LoadConfig(scen).delayMs

\* C38: a run of the agent subprocess that ends without an error is the
\* last run of the call, and the call returns a nil error; the client sleeps,
\* runs a model again or returns an error only after a run that failed.
C38_SuccessIsReported ==
    \A k \in 1..Len(client.log) :
        ~ client.log[k].err =>
            /\ k = Len(client.log)
            /\ client.pc = "returned"
            /\ ~ client.result.err

\* C40: running is true only while a polling loop is alive or a Stop waits
\* for it; a Start that finds no loop spawns one.
C40_RunningMeansLoop ==
    /\ [](running => (loop # NoLoop \/ user.pc = "wait"))
    /\ [][(CallOf("start") /\ loop = NoLoop) => loop' = NewLoop]_vars

\* C39: whatever the interleaving of the calls of two goroutines, no call of
\* Start or Stop panics: the stop channel of a Start is closed once.
C39_ConcurrentCallersSafe == user.pc # "panic" /\ peer.pc # "panic"

\* the tasks added and not deleted by the first k calls of the log, each
\* with the record of its last add or update
RECURSIVE Expected(_, _)
Expected(log, k) ==
    IF k = 0
    THEN EmptyMap
    ELSE LET m == Expected(log, k - 1)
             e == log[k]
         IN  CASE e.op = "add" -> [i \in DOMAIN m \cup {e.id} |-> IF i = e.id THEN e.rec ELSE m[i]]
               [] e.op = "update" /\ e.id \in DOMAIN m -> [m EXCEPT ![e.id] = e.rec]
               [] e.op = "delete" -> [i \in DOMAIN m \ {e.id} |-> m[i]]
               [] OTHER -> m

\* C31: of calls made one after the other, on the same instance or on new
\* ones: AddTask succeeds; GetTask returns the record of the last AddTask or
\* UpdateTask of the id, and fails for an id that was not added or was
\* deleted, as UpdateTask and DeleteTask do; ListTasks returns the tasks
\* added and not deleted.
C31_StoreRoundTrip ==
    store.pc = "run" =>
        \A k \in 1..Len(store.log) :
            LET e == store.log[k]
                m == Expected(store.log, k - 1)
            IN  /\ e.op = "add" => ~ e.err
                /\ e.op \in {"update", "delete", "get"} => (e.err <=> e.id \notin DOMAIN m)
                /\ (e.op = "get" /\ ~ e.err) => e.got = m[e.id]
                /\ e.op = "list" => (~ e.err /\ e.got = m)

\* C31 witness: a task was added on one instance, updated with another
\* record on a second one, and GetTask on a new instance has returned the
\* record of the update.
C31_Witness ==
    /\ store.pc = "run" /\ Len(store.log) = 3
    /\ store.log[1].op = "add" /\ store.log[1].inst = "same"
    /\ store.log[2].op = "update" /\ store.log[2].inst = "new" /\ ~ store.log[2].err
    /\ store.log[2].rec # store.log[1].rec
    /\ store.log[3].op = "get" /\ store.log[3].inst = "new" /\ ~ store.log[3].err
    /\ store.log[3].got = store.log[2].rec

\* C8: the mutations of the store are serialized, and none that has returned
\* success is lost: whenever no save is under way, the file holds the record
\* of every coordinator that has come back from its UpdateTask(InProgress)
\* without an error.
C8_NoLostUpdate ==
    (disk.state = "valid" /\ \A c \in BagToSet(coords) : c.ph \in {"-", "call"}) =>
        \A c \in BagToSet(coords) : c.pc = "sink" => File[c.task] = c.t

Answered(i) == File[i].status = NeedsReview /\ File[i].resp

\* C6: a task that is NeedsReview with a ReviewResponse is in the end
\* admitted on the resume path, and in the end leaves NeedsReview.
C6_ResumeNotStarved ==
    \A i \in 1..SoloTasks :
        /\ Answered(i) ~> (\E c \in InFlight(i) : c.kind = "resume")
        /\ Answered(i) ~> (File[i].status # NeedsReview)

====
